---- MODULE Spec2Model ----
(***************************************************************************)
(* Model of the testdir crate's NumberedDir (src/src/numbered_dir.rs).     *)
(*                                                                         *)
(* The shared state is the content of one parent directory: the names of   *)
(* the directories in it and the {base}-current symbolic links.  A name is *)
(* a sequence of one-character strings, so that formatting a number into a *)
(* name and parsing a name back into a number are computed, as the code    *)
(* does.  Every process runs NumberedDir::create and create_subdir; one    *)
(* action is one filesystem call of the function, which is the granularity *)
(* at which processes and threads interleave.  A directory listing is read *)
(* in one step (one getdents call returns a directory of this size whole). *)
(* A path below the parent is the sequence of its components.              *)
(***************************************************************************)
EXTENDS Integers, Sequences, FiniteSets, TLC

VARIABLES
    parent_exists,  \* the parent directory exists
    dirs,           \* names of the directories in the parent
    link,           \* link[b]: target path of the {b}-current symlink, or NoLink
    pc,             \* pc[p]: the filesystem call process p makes next
    base,           \* base[p]: argument `base` of p's create call
    count,          \* count[p]: argument `count` of p's create call
    current_count,  \* current_count[p]: result of current_entry_count
    obsolete,       \* obsolete[p]: paths the retirement loop still has to remove
    next_count,     \* next_count[p]: candidate number of create_next_dir
    attempt,        \* attempt[p]: loop variable _i of create_next_dir
    result,         \* result[p]: what p's last create call returned
    retention,      \* the retention count used by the calls of this run
    calls,          \* number of create calls started
    removals,       \* number of directories removed by retirement
    overlapped,     \* overlapped[p]: paths returned by the calls that ended during p's call
    shared,         \* a create call returned a path that a call overlapping it had returned
    last_err,       \* last_err[p]: variable last_err of create_next_dir
    subdirs,        \* paths of the directories below the numbered directories
    rel_path,       \* rel_path[p]: argument `rel_path` of p's create_subdir call
    full_path,      \* full_path[p]: variable full_path of create_subdir
    suffix_i,       \* suffix_i[p]: loop variable i of create_subdir
    subdir_result,  \* subdir_result[p]: what p's last create_subdir call returned
    carves,         \* number of create_subdir calls started
    carved,         \* the paths the successful create_subdir calls returned
    retired,        \* retired[p]: paths the retirement of p's create call has removed
    pid_files,      \* <<path, text>>: the file cargo-pid in the directory holds text
    listed,         \* listed[p]: the entries p's NumberedDirIter has yielded, in order
    readdir,        \* readdir[p]: the names p's NumberedDirIter has still to read
    stage,          \* stage[p]: where p stands in the iterator, the builder, the initialiser
    builder,        \* builder[p]: the NumberedDirBuilder of p's last get_or_init call
    cell,           \* cell[k]: the static TESTDIR of operating-system process k
    process,        \* process[p]: the operating-system process thread p runs in
    cargo_pid,      \* cargo_pid[k]: the static CARGO_PID of process k, or NoPid
    inits,          \* number of get_or_init calls made
    testdir         \* testdir[p]: what p's last get_or_init call returned

vars == <<parent_exists, dirs, link, pc, base, count, current_count, obsolete,
          next_count, attempt, result, retention, calls, removals,
          overlapped, shared, last_err, subdirs, rel_path, full_path, suffix_i,
          subdir_result, carves, carved, retired, pid_files, listed, readdir,
          stage, builder, cell, process, cargo_pid, inits, testdir>>

\* the variables of a create_subdir call
sub_vars == <<rel_path, full_path, suffix_i, subdir_result, carves, carved>>

\* the variables of the callers of create: the iterator, the builder and the
\* global instance
outer_vars == <<listed, readdir, stage, builder, cell, process, cargo_pid, inits, testdir>>

\* the variables of a create call, its position, base and result aside
create_locals == <<count, current_count, obsolete, next_count, attempt, retention, calls,
                   removals, overlapped, shared, last_err, retired>>

----------------------------------------------------------------------------
(* Bounds of the model *)

MaxProcs == 2          \* processes calling create concurrently
MaxCount == 3          \* retention counts 1..MaxCount
MaxScanFaultCalls == 3 \* create calls of a scan fault run
MaxRetireCalls == 2    \* create calls of a subdirectory run with retirement, the first included
MaxRetireCarves == 1   \* create_subdir calls of a subdirectory run with retirement
MaxEntries == 4        \* entries of the parent an iterator run starts with
MaxInits == 3          \* get_or_init calls of a testdir run
MaxCargoPids == 2      \* Cargo processes of a testdir run
MaxConcCalls == 4      \* create calls in a concurrent run
MaxSeqCalls == 65535   \* create calls in a sequential run from an empty parent
WrapLead == 3          \* a wrap run starts WrapLead calls before number 65535 is used up
MaxWrapCalls == 24     \* create calls in a wrap run
MaxVaryCalls == 6      \* create calls of a run whose retention count varies
MaxBasesCalls == 4     \* create calls of a run on two bases
ArcSpan == 2           \* distance around the arc boundaries sampled by the arc run
MaxFaultCalls == 2     \* create calls in a run with failing filesystem calls
MaxCarves == 4         \* create_subdir calls in a concurrent run
MaxSeqCarves == 24     \* create_subdir calls with one path in a sequential run

Procs == 1 .. MaxProcs
Counts == 1 .. MaxCount

----------------------------------------------------------------------------
(* Numbers: u16 with wrapping arithmetic *)

U16_RANGE == 65536
U16_MAX == 65535
U8_MAX == 255
MAX_TRIES == 16

wrapping_add(a, b) == (a + b) % U16_RANGE
wrapping_sub(a, b) == (a + U16_RANGE - b) % U16_RANGE

None == -1

----------------------------------------------------------------------------
(* Names: format!("{}-{}", base, n), strip_prefix and parse::<u16>() *)

DigitChars == <<"0", "1", "2", "3", "4", "5", "6", "7", "8", "9">>

IsDigit(c) == \E i \in 1 .. 10 : DigitChars[i] = c

DigitVal(c) == (CHOOSE i \in 1 .. 10 : DigitChars[i] = c) - 1

RECURSIVE to_string(_)
to_string(n) ==
    IF n < 10 THEN <<DigitChars[n + 1]>>
    ELSE to_string(n \div 10) \o <<DigitChars[(n % 10) + 1]>>

RECURSIVE parse_digits(_, _)
parse_digits(s, acc) ==
    IF s = <<>> THEN acc
    ELSE IF ~IsDigit(Head(s)) THEN None
    ELSE LET v == acc * 10 + DigitVal(Head(s))
         IN  IF v > U16_MAX THEN None ELSE parse_digits(Tail(s), v)

\* variant: the text "0" is not taken for a number
parse_u16_rejecting_zero(s) ==
    IF s = <<>> \/ s = <<"0">> THEN None
    ELSE IF Len(s) = 1 /\ Head(s) \in {"+", "-"} THEN None
    ELSE IF Head(s) = "+" THEN parse_digits(Tail(s), 0)
    ELSE parse_digits(s, 0)

parse_u16(s) ==
    IF s = <<>> THEN None
    ELSE IF Len(s) = 1 /\ Head(s) \in {"+", "-"} THEN None
    ELSE IF Head(s) = "+" THEN parse_digits(Tail(s), 0)
    ELSE parse_digits(s, 0)

prefix_of(b) == b \o <<"-">>

numbered_name(b, n) == prefix_of(b) \o to_string(n)

current_name(b) == prefix_of(b) \o <<"c", "u", "r", "r", "e", "n", "t">>

starts_with(name, prefix) ==
    /\ Len(name) >= Len(prefix)
    /\ SubSeq(name, 1, Len(prefix)) = prefix

strip_prefix(name, prefix) == SubSeq(name, Len(prefix) + 1, Len(name))

\* variant: only '/' counts as a separator
contains_separator_slash_only(b) == \E i \in 1 .. Len(b) : b[i] = "/"

contains_separator(b) == \E i \in 1 .. Len(b) : b[i] \in {"/", "\\"}

----------------------------------------------------------------------------
(* The parent directory as the code sees it *)

NoLink == <<>>

TheBase == <<"b">>

\* the base of a second series in the same parent: its text is the name of
\* an entry of the first series, its entries begin with the first prefix
OtherBase == <<"b", "-", "1">>

Bases == {TheBase, OtherBase}

\* the names read_dir() yields for the parent
read_dir(ds, ln) == ds \cup {current_name(b) : b \in {x \in Bases : ln[x] # NoLink}}

\* the text behind the last '-' of a name
RECURSIVE after_last_dash(_)
after_last_dash(name) ==
    IF name = <<>> \/ name[Len(name)] = "-" THEN <<>>
    ELSE after_last_dash(SubSeq(name, 1, Len(name) - 1)) \o <<name[Len(name)]>>

\* variant: the number is read from the text behind the last '-' of the name
iterate_number_after_last_dash(ds, ln, b) ==
    {[path |-> name, base |-> b, number |-> parse_u16(after_last_dash(name))] :
        name \in {x \in read_dir(ds, ln) :
                    /\ starts_with(x, prefix_of(b))
                    /\ parse_u16(after_last_dash(x)) # None}}

\* NumberedDirIter: the entries whose name is the prefix followed by a u16
iterate(ds, ln, b) ==
    {[path |-> name, base |-> b, number |-> parse_u16(strip_prefix(name, prefix_of(b)))] :
        name \in {x \in read_dir(ds, ln) :
                    /\ starts_with(x, prefix_of(b))
                    /\ parse_u16(strip_prefix(x, prefix_of(b))) # None}}

Max(S) == CHOOSE m \in S : \A x \in S : x <= m

current_entry_count(ds, ln, b) ==
    LET numbers == {e.number : e \in iterate(ds, ln, b)}
    IN  IF numbers = {} THEN None ELSE Max(numbers)

----------------------------------------------------------------------------
(* The arc test of remove_obsolete_dirs *)

\* variant: the "+ 1" of line 154 left out
oldest_to_keep_off_by_one(current, keep) == wrapping_sub(current, keep)

oldest_to_keep(current, keep) == wrapping_add(wrapping_sub(current, keep), 1)

\* variant: everything ahead of current counts as old
oldest_to_delete_at_current(current) == wrapping_add(current, 1)

\* variant: the keep arc ends one number earlier
oldest_to_delete_one_early(current) == wrapping_add(current, U16_MAX \div 2 - 1)

oldest_to_delete(current) == wrapping_add(current, U16_MAX \div 2)

\* variant: the test of the non-wrapped case applied in both cases
is_obsolete_ignoring_wrap(number, current, keep) ==
    LET otk == wrapping_add(wrapping_sub(current, keep), 1)
        otd == wrapping_add(current, U16_MAX \div 2)
    IN  otk # otd /\ (number < otk \/ number >= otd)

\* variant: "> oldest_to_delete" instead of ">= oldest_to_delete"
is_obsolete_exclusive(number, current, keep) ==
    LET otk == wrapping_add(wrapping_sub(current, keep), 1)
        otd == wrapping_add(current, U16_MAX \div 2)
    IN  \/ (otk > otd /\ (number < otk /\ number > otd))
        \/ (otk < otd /\ (number < otk \/ number > otd))

is_obsolete(number, current, keep) ==
    LET otk == oldest_to_keep(current, keep)
        otd == oldest_to_delete(current)
    IN  \/ (otk > otd /\ (number < otk /\ number >= otd))
        \/ (otk < otd /\ (number < otk \/ number >= otd))

----------------------------------------------------------------------------
(* Results of create *)

NoResult ==
    [status |-> "none", number |-> None, path |-> <<>>, err |-> "none", cause |-> "none"]

Ok(path, n) ==
    [status |-> "ok", number |-> n, path |-> path, err |-> "none", cause |-> "none"]

Err(msg) ==
    [status |-> "err", number |-> None, path |-> <<>>, err |-> msg, cause |-> "none"]

\* Error::new(last_err).context(msg)
ErrFrom(msg, cause) ==
    [status |-> "err", number |-> None, path |-> <<>>, err |-> msg, cause |-> cause]

in_call(p) == pc[p] \notin {"idle", "done", "panicked", "subdir_create_dir"}

Return(p, r) ==
    /\ result' = [result EXCEPT ![p] = r]
    /\ pc' = [pc EXCEPT ![p] = "done"]
    /\ overlapped' = [q \in Procs |->
                        IF q = p THEN {}
                        ELSE IF in_call(q) /\ r.status = "ok" THEN overlapped[q] \cup {r.path}
                        ELSE overlapped[q]]
    /\ shared' = (shared \/ (r.status = "ok" /\ r.path \in overlapped[p]))

----------------------------------------------------------------------------
(* NumberedDir::create, one action per filesystem call *)

\* create, lines 45-49: validate base, fs::create_dir_all(&parent)
create(p, b, k) ==
    /\ pc[p] \in {"idle", "done"}
    /\ calls' = calls + 1
    /\ base' = [base EXCEPT ![p] = b]
    /\ count' = [count EXCEPT ![p] = k]
    /\ current_count' = [current_count EXCEPT ![p] = None]
    /\ obsolete' = [obsolete EXCEPT ![p] = {}]
    /\ next_count' = [next_count EXCEPT ![p] = 0]
    /\ attempt' = [attempt EXCEPT ![p] = 0]
    /\ IF contains_separator(b)
       THEN /\ Return(p, Err("base must not contain path separators"))
            /\ UNCHANGED parent_exists
       ELSE /\ parent_exists' = TRUE
            /\ pc' = [pc EXCEPT ![p] = "current_entry_count"]
            /\ result' = [result EXCEPT ![p] = NoResult]
            /\ UNCHANGED <<overlapped, shared>>
    /\ UNCHANGED <<dirs, link, retention, removals>>
    /\ last_err' = [last_err EXCEPT ![p] = "none"]
    /\ retired' = [retired EXCEPT ![p] = {}]
    /\ UNCHANGED <<subdirs, sub_vars, pid_files>>

\* create, lines 50-56: the scan for the highest number
scan_current(p) ==
    /\ pc[p] = "current_entry_count"
    /\ LET c == current_entry_count(dirs, link, base[p])
       IN  /\ current_count' = [current_count EXCEPT ![p] = c]
           /\ IF c = None
              THEN /\ next_count' = [next_count EXCEPT ![p] = 0]
                   /\ pc' = [pc EXCEPT ![p] = "create_dir"]
              ELSE /\ UNCHANGED next_count
                   /\ pc' = [pc EXCEPT ![p] = "remove_obsolete_dirs"]
    /\ UNCHANGED <<parent_exists, dirs, link, base, count, obsolete, attempt,
                   result, retention, calls, removals, overlapped, shared>>
    /\ UNCHANGED <<last_err, subdirs, sub_vars, retired, pid_files, outer_vars>>

\* variant: current_count + 1 without wrapping
after_retirement_plain_add(p) ==
    /\ next_count' = [next_count EXCEPT ![p] = current_count[p] + 1]
    /\ pc' = [pc EXCEPT ![p] = "create_dir"]

\* the number create passes on to create_next_dir once retirement is over
after_retirement(p) ==
    /\ next_count' = [next_count EXCEPT ![p] = wrapping_add(current_count[p], 1)]
    /\ pc' = [pc EXCEPT ![p] = "create_dir"]

\* remove_obsolete_dirs, lines 154-163: the assertion, the listing of the
\* parent and the arc test on each entry
remove_obsolete_dirs(p) ==
    /\ pc[p] = "remove_obsolete_dirs"
    /\ LET current == current_count[p]
           keep == count[p] - 1
           doomed == {e.path : e \in {x \in iterate(dirs, link, base[p]) :
                                          is_obsolete(x.number, current, keep)}}
       IN  IF oldest_to_keep(current, keep) = oldest_to_delete(current)
           THEN /\ pc' = [pc EXCEPT ![p] = "panicked"]
                /\ UNCHANGED <<obsolete, next_count>>
           ELSE /\ obsolete' = [obsolete EXCEPT ![p] = doomed]
                /\ IF doomed = {}
                   THEN after_retirement(p)
                   ELSE /\ pc' = [pc EXCEPT ![p] = "remove_dir_all"]
                        /\ UNCHANGED next_count
    /\ UNCHANGED <<parent_exists, dirs, link, base, count, current_count, attempt,
                   result, retention, calls, removals, overlapped, shared>>
    /\ UNCHANGED <<last_err, subdirs, sub_vars, retired, pid_files, outer_vars>>

\* remove_obsolete_dirs, lines 164-165: fs::remove_dir_all of one entry;
\* it fails when the directory is not there any more
remove_dir_all(p) ==
    /\ pc[p] = "remove_dir_all"
    /\ \E path \in obsolete[p] :
          IF path \in dirs
          THEN /\ dirs' = dirs \ {path}
               /\ subdirs' = {s \in subdirs : Head(s) # path}
               /\ pid_files' = {f \in pid_files : f[1] # path}
               /\ retired' = [retired EXCEPT ![p] = @ \cup {path}]
               /\ removals' = removals + 1
               /\ obsolete' = [obsolete EXCEPT ![p] = @ \ {path}]
               /\ IF obsolete[p] = {path}
                  THEN after_retirement(p)
                  ELSE UNCHANGED <<pc, next_count>>
               /\ UNCHANGED <<result, overlapped, shared>>
          ELSE /\ Return(p, Err("Failed to remove"))
               /\ UNCHANGED <<dirs, subdirs, pid_files, retired, removals, obsolete,
                              next_count>>
    /\ UNCHANGED <<parent_exists, link, base, count, current_count, attempt,
                   retention, calls>>
    /\ UNCHANGED <<last_err, sub_vars, outer_vars>>

\* variant: the loop makes one attempt more
attempt_failed_one_more(p, err) ==
    /\ next_count' = [next_count EXCEPT ![p] = wrapping_add(@, 1)]
    /\ attempt' = [attempt EXCEPT ![p] = @ + 1]
    /\ last_err' = [last_err EXCEPT ![p] = err]
    /\ IF attempt[p] + 1 = MAX_TRIES + 1
       THEN Return(p, ErrFrom("Failed to create numbered dir", err))
       ELSE UNCHANGED <<pc, result, overlapped, shared>>

\* create_next_dir, lines 201-207: a failed attempt moves on to the next
\* number, the last of MAX_TRIES attempts returns its error
attempt_failed(p, err) ==
    /\ next_count' = [next_count EXCEPT ![p] = wrapping_add(@, 1)]
    /\ attempt' = [attempt EXCEPT ![p] = @ + 1]
    /\ last_err' = [last_err EXCEPT ![p] = err]
    /\ IF attempt[p] + 1 = MAX_TRIES
       THEN Return(p, ErrFrom("Failed to create numbered dir", err))
       ELSE UNCHANGED <<pc, result, overlapped, shared>>

\* create_next_dir, lines 182-185 and 201-207: one fs::create_dir attempt
create_dir(p) ==
    /\ pc[p] = "create_dir"
    /\ LET path == numbered_name(base[p], next_count[p])
       IN  IF path \notin read_dir(dirs, link)
           THEN /\ dirs' = dirs \cup {path}
                /\ pc' = [pc EXCEPT ![p] = "exists"]
                /\ UNCHANGED <<next_count, attempt, last_err, result, overlapped, shared>>
           ELSE /\ attempt_failed(p, "AlreadyExists")
                /\ UNCHANGED dirs
    /\ UNCHANGED <<parent_exists, link, base, count, current_count, obsolete,
                   retention, calls, removals>>
    /\ UNCHANGED <<subdirs, sub_vars, retired, pid_files, outer_vars>>

\* create_next_dir, line 188: current.exists() follows the link
exists(p) ==
    /\ pc[p] = "exists"
    /\ IF link[base[p]] # NoLink /\ link[base[p]] \in dirs
       THEN pc' = [pc EXCEPT ![p] = "remove_file"]
       ELSE pc' = [pc EXCEPT ![p] = "symlink_dir"]
    /\ UNCHANGED <<parent_exists, dirs, link, base, count, current_count, obsolete,
                   next_count, attempt, result, retention, calls, removals,
                   overlapped, shared>>
    /\ UNCHANGED <<last_err, subdirs, sub_vars, retired, pid_files, outer_vars>>

\* create_next_dir, lines 189-191: fs::remove_file(&current)
remove_file(p) ==
    /\ pc[p] = "remove_file"
    /\ IF link[base[p]] # NoLink
       THEN /\ link' = [link EXCEPT ![base[p]] = NoLink]
            /\ pc' = [pc EXCEPT ![p] = "symlink_dir"]
            /\ UNCHANGED <<result, overlapped, shared>>
       ELSE /\ Return(p, Err("Failed to remove obsolete current symlink"))
            /\ UNCHANGED link
    /\ UNCHANGED <<parent_exists, dirs, base, count, current_count, obsolete,
                   next_count, attempt, retention, calls, removals>>
    /\ UNCHANGED <<last_err, subdirs, sub_vars, retired, pid_files, outer_vars>>

\* variant: the result carries the number of the first candidate
symlink_dir_first_candidate(p) ==
    /\ pc[p] = "symlink_dir"
    /\ LET path == numbered_name(base[p], next_count[p])
       IN  /\ IF link[base[p]] = NoLink
              THEN link' = [link EXCEPT ![base[p]] = path]
              ELSE UNCHANGED link
           /\ Return(p, Ok(path, wrapping_sub(next_count[p], attempt[p])))
    /\ UNCHANGED <<parent_exists, dirs, base, count, current_count, obsolete,
                   next_count, attempt, retention, calls, removals>>
    /\ UNCHANGED <<last_err, subdirs, sub_vars, retired, pid_files, outer_vars>>

\* variant: a failure to create the link is returned
symlink_dir_propagating(p) ==
    /\ pc[p] = "symlink_dir"
    /\ LET path == numbered_name(base[p], next_count[p])
       IN  IF link[base[p]] = NoLink
           THEN /\ link' = [link EXCEPT ![base[p]] = path]
                /\ Return(p, Ok(path, next_count[p]))
           ELSE /\ UNCHANGED link
                /\ Return(p, Err("Failed to create current symlink"))
    /\ UNCHANGED <<parent_exists, dirs, base, count, current_count, obsolete,
                   next_count, attempt, retention, calls, removals>>
    /\ UNCHANGED <<last_err, subdirs, sub_vars, retired, pid_files, outer_vars>>

\* create_next_dir, lines 194-199: symlink_dir(&path, &current).ok() and return
symlink_dir(p) ==
    /\ pc[p] = "symlink_dir"
    /\ LET path == numbered_name(base[p], next_count[p])
       IN  /\ IF link[base[p]] = NoLink
              THEN link' = [link EXCEPT ![base[p]] = path]
              ELSE UNCHANGED link
           /\ Return(p, Ok(path, next_count[p]))
    /\ UNCHANGED <<parent_exists, dirs, base, count, current_count, obsolete,
                   next_count, attempt, retention, calls, removals>>
    /\ UNCHANGED <<last_err, subdirs, sub_vars, retired, pid_files, outer_vars>>

\* current_entry_count, lines 211-212: fs::read_dir of the parent fails (no
\* read permission, too many open files) and .ok()? turns the error into None
scan_current_fails(p) ==
    /\ pc[p] = "current_entry_count"
    /\ current_count' = [current_count EXCEPT ![p] = None]
    /\ next_count' = [next_count EXCEPT ![p] = 0]
    /\ pc' = [pc EXCEPT ![p] = "create_dir"]
    /\ UNCHANGED <<parent_exists, dirs, link, base, count, obsolete, attempt,
                   result, retention, calls, removals, overlapped, shared>>
    /\ UNCHANGED <<last_err, subdirs, sub_vars, retired, pid_files, outer_vars>>

\* remove_obsolete_dirs, lines 164-165: fs::remove_dir_all fails on a
\* directory that is there (permission denied, an entry in use)
remove_dir_all_fails(p) ==
    /\ pc[p] = "remove_dir_all"
    /\ \E path \in obsolete[p] :
          /\ path \in dirs
          /\ Return(p, Err("Failed to remove"))
    /\ UNCHANGED <<parent_exists, dirs, link, base, count, current_count, obsolete,
                   next_count, attempt, retention, calls, removals, last_err,
                   subdirs, sub_vars, retired, pid_files, outer_vars>>

\* create_next_dir, lines 185 and 201-204: fs::create_dir fails with an error
\* other than AlreadyExists (permission denied, disk full, name too long)
create_dir_fails(p) ==
    /\ pc[p] = "create_dir"
    /\ attempt_failed(p, "PermissionDenied")
    /\ UNCHANGED <<parent_exists, dirs, link, base, count, current_count, obsolete,
                   retention, calls, removals, subdirs, sub_vars, retired,
                   pid_files, outer_vars>>

\* one filesystem call of one of the create calls under way
Steps ==
    \E p \in Procs :
        \/ scan_current(p)
        \/ remove_obsolete_dirs(p)
        \/ remove_dir_all(p)
        \/ create_dir(p)
        \/ exists(p)
        \/ remove_file(p)
        \/ symlink_dir(p)

----------------------------------------------------------------------------
(* Paths: std::path::Path as create_subdir uses it.  A relative or absolute *)
(* path is its root flag and its components, "a/b/c" being the components   *)
(* a, b, c; a path on disk is the sequence of its components below the      *)
(* parent, the first one being the name of the numbered directory.          *)

DotDot == <<".", ".">>

CurDir == <<".">>

Path(absolute, components) == [absolute |-> absolute, components |-> components]

is_relative(path) == ~path.absolute

NoFileName == <<>>

\* variant: the last component whatever it is
file_name_lexical(path) ==
    LET c == path.components
    IN  IF c = <<>> THEN NoFileName ELSE c[Len(c)]

\* Path::file_name: the last component if it is a normal one
file_name(path) ==
    LET c == path.components
    IN  IF c = <<>> \/ c[Len(c)] \in {DotDot, CurDir} THEN NoFileName ELSE c[Len(c)]

\* Path::parent of a path that has a last component
parent(path) == Path(path.absolute, SubSeq(path.components, 1, Len(path.components) - 1))

\* Path::join of a directory on disk and a relative path
join(dir, path) == dir \o path.components

\* variant: the first component below the numbered directory is replaced
set_file_name_first_component(full, name) ==
    SubSeq(full, 1, 1) \o <<name>> \o SubSeq(full, 3, Len(full))

\* PathBuf::set_file_name: the last component is replaced
set_file_name(full, name) == SubSeq(full, 1, Len(full) - 1) \o <<name>>

\* variant: the suffixes start at 1
suffixed_from_one(name, i) == name \o <<"-">> \o to_string(i + 1)

\* create_subdir, lines 132-133: file_name followed by format!("-{}", i)
suffixed(name, i) == name \o <<"-">> \o to_string(i)

\* whether a directory is there
is_dir(full) == IF Len(full) = 1 THEN full[1] \in dirs ELSE full \in subdirs

\* variant: an existing directory is taken as created
create_dir_succeeds_on_existing(full) == is_dir(SubSeq(full, 1, Len(full) - 1))

\* fs::create_dir succeeds when the directory is not there and its parent is
create_dir_succeeds(full) ==
    /\ ~is_dir(full)
    /\ is_dir(SubSeq(full, 1, Len(full) - 1))

\* the directories fs::create_dir_all(full) makes sure of: full and the
\* directories above it
ancestors(full) == {SubSeq(full, 1, n) : n \in 1 .. Len(full)}

----------------------------------------------------------------------------
(* NumberedDir::create_subdir, one action per filesystem call *)

NoSubdirResult == [status |-> "none", path |-> <<>>, err |-> "none"]

SubdirOk(path) == [status |-> "ok", path |-> path, err |-> "none"]

SubdirErr(msg) == [status |-> "err", path |-> <<>>, err |-> msg]

SubdirReturn(p, r) ==
    /\ subdir_result' = [subdir_result EXCEPT ![p] = r]
    /\ pc' = [pc EXCEPT ![p] = "done"]
    /\ carved' = IF r.status = "ok" THEN carved \cup {r.path} ELSE carved

\* create_subdir, lines 104-126: the two checks of rel_path and
\* fs::create_dir_all of the directory the new one goes into; p holds the
\* NumberedDir result[p]
create_subdir(p, path) ==
    /\ pc[p] = "done"
    /\ result[p].status = "ok"
    /\ carves' = carves + 1
    /\ rel_path' = [rel_path EXCEPT ![p] = path]
    /\ IF ~is_relative(path)
       THEN /\ SubdirReturn(p, SubdirErr("Not a relative path"))
            /\ UNCHANGED <<parent_exists, dirs, subdirs, full_path, suffix_i>>
       ELSE IF file_name(path) = NoFileName
       THEN /\ SubdirReturn(p, SubdirErr("Subdir does not end in a filename"))
            /\ UNCHANGED <<parent_exists, dirs, subdirs, full_path, suffix_i>>
       ELSE LET made == ancestors(join(<<result[p].path>>, parent(path)))
            IN  /\ parent_exists' = TRUE
                /\ dirs' = dirs \cup {full[1] : full \in made}
                /\ subdirs' = subdirs \cup {full \in made : Len(full) > 1}
                /\ full_path' = [full_path EXCEPT ![p] = join(<<result[p].path>>, path)]
                /\ suffix_i' = [suffix_i EXCEPT ![p] = 0]
                /\ subdir_result' = [subdir_result EXCEPT ![p] = NoSubdirResult]
                /\ pc' = [pc EXCEPT ![p] = "subdir_create_dir"]
                /\ UNCHANGED carved
    /\ UNCHANGED <<link, base, count, current_count, obsolete, next_count, attempt,
                   result, retention, calls, removals, overlapped, shared, last_err,
                   retired, pid_files, outer_vars>>

\* variant: the loop runs once more
subdir_attempt_failed_one_more(p) ==
    /\ full_path' = [full_path EXCEPT ![p] =
            set_file_name(@, suffixed(file_name(rel_path[p]), suffix_i[p]))]
    /\ suffix_i' = [suffix_i EXCEPT ![p] = @ + 1]
    /\ IF suffix_i[p] + 1 = U16_MAX + 1
       THEN SubdirReturn(p, SubdirErr("subdir conflict: all filename alternatives exhausted"))
       ELSE UNCHANGED <<pc, subdir_result, carved>>

\* create_subdir, lines 127 and 131-141: a failed attempt computes the name
\* with the next suffix; after the last round of the loop the call returns
\* its error
subdir_attempt_failed(p) ==
    /\ full_path' = [full_path EXCEPT ![p] =
            set_file_name(@, suffixed(file_name(rel_path[p]), suffix_i[p]))]
    /\ suffix_i' = [suffix_i EXCEPT ![p] = @ + 1]
    /\ IF suffix_i[p] + 1 = U16_MAX
       THEN SubdirReturn(p, SubdirErr("subdir conflict: all filename alternatives exhausted"))
       ELSE UNCHANGED <<pc, subdir_result, carved>>

\* create_subdir, lines 127-141: one fs::create_dir attempt of the loop
subdir_create_dir(p) ==
    /\ pc[p] = "subdir_create_dir"
    /\ IF create_dir_succeeds(full_path[p])
       THEN /\ subdirs' = subdirs \cup {full_path[p]}
            /\ SubdirReturn(p, SubdirOk(full_path[p]))
            /\ UNCHANGED <<full_path, suffix_i>>
       ELSE /\ subdir_attempt_failed(p)
            /\ UNCHANGED subdirs
    /\ UNCHANGED <<parent_exists, dirs, link, base, count, current_count, obsolete,
                   next_count, attempt, result, retention, calls, removals,
                   overlapped, shared, last_err, rel_path, carves, retired,
                   pid_files, outer_vars>>

\* create_subdir, lines 128 and 131: fs::create_dir fails on a name that is
\* free (permission denied, disk full, the directory above it gone)
subdir_create_dir_fails(p) ==
    /\ pc[p] = "subdir_create_dir"
    /\ subdir_attempt_failed(p)
    /\ UNCHANGED <<parent_exists, dirs, link, base, count, current_count, obsolete,
                   next_count, attempt, result, retention, calls, removals,
                   overlapped, shared, last_err, subdirs, rel_path, carves, retired,
                   pid_files, outer_vars>>

----------------------------------------------------------------------------
(* NumberedDirIter, one action per directory entry read *)

NoEntry == [path |-> <<>>, base |-> <<>>, number |-> None]

\* variant: the path of an entry is formatted from its number
numbered_entry_formatted_path(name, b) ==
    IF starts_with(name, prefix_of(b)) /\ parse_u16(strip_prefix(name, prefix_of(b))) # None
    THEN [path |-> numbered_name(b, parse_u16(strip_prefix(name, prefix_of(b)))),
          base |-> b, number |-> parse_u16(strip_prefix(name, prefix_of(b)))]
    ELSE NoEntry

\* NumberedDirIter::next, lines 254-268: the entry the name of a dirent yields
numbered_entry(name, b) ==
    IF starts_with(name, prefix_of(b)) /\ parse_u16(strip_prefix(name, prefix_of(b))) # None
    THEN [path |-> name, base |-> b, number |-> parse_u16(strip_prefix(name, prefix_of(b)))]
    ELSE NoEntry

\* NumberedDir::iterate and NumberedDirIter::try_new: fs::read_dir(parent)
\* (read_dir of a parent that is not there fails, no iterator is made)
try_new(p, b) ==
    /\ stage[p] = "none"
    /\ pc[p] \in {"idle", "done"}
    /\ parent_exists
    /\ base' = [base EXCEPT ![p] = b]
    /\ readdir' = [readdir EXCEPT ![p] = read_dir(dirs, link)]
    /\ listed' = [listed EXCEPT ![p] = <<>>]
    /\ stage' = [stage EXCEPT ![p] = "iterating"]
    /\ UNCHANGED <<builder, cell, process, cargo_pid, inits, testdir>>
    /\ UNCHANGED <<parent_exists, dirs, link, subdirs, pid_files, pc, result,
                   create_locals, sub_vars>>

\* NumberedDirIter::next: one round of its loop reads one dirent, in the
\* order the filesystem hands them out; the end of the listing ends the iterator
next(p) ==
    /\ stage[p] = "iterating"
    /\ IF readdir[p] = {}
       THEN /\ stage' = [stage EXCEPT ![p] = "iterated"]
            /\ UNCHANGED <<readdir, listed>>
       ELSE \E name \in readdir[p] :
                /\ readdir' = [readdir EXCEPT ![p] = @ \ {name}]
                /\ listed' = [listed EXCEPT ![p] =
                                IF numbered_entry(name, base[p]) # NoEntry
                                THEN Append(@, numbered_entry(name, base[p]))
                                ELSE @]
                /\ UNCHANGED stage
    /\ UNCHANGED <<builder, cell, process, cargo_pid, inits, testdir>>
    /\ UNCHANGED <<parent_exists, dirs, link, subdirs, pid_files, pc, base, result,
                   create_locals, sub_vars>>

----------------------------------------------------------------------------
(* The cargo-pid file (src/src/private.rs) *)

NoPid == 0

\* the text of a pid file read back with parse::<Pid>()
parse_pid(text) == parse_digits(text, 0)

\* variant: any directory that holds a readable cargo-pid file is reused
reuse_cargo_any_pid(p, path) ==
    \E f \in pid_files : f[1] = path /\ parse_pid(f[2]) # None

\* reuse_cargo, lines 73-83: the directory's cargo-pid file names the Cargo
\* process this process runs under
reuse_cargo(p, path) ==
    \E f \in pid_files :
        /\ f[1] = path
        /\ parse_pid(f[2]) # None
        /\ cargo_pid[process[p]] # NoPid
        /\ parse_pid(f[2]) = cargo_pid[process[p]]

----------------------------------------------------------------------------
(* NumberedDirBuilder::create and the global instance TESTDIR, one action   *)
(* per filesystem call.  TESTDIR is a once_cell OnceCell: get_or_init runs  *)
(* one initialiser at a time per process, callers arriving meanwhile wait,  *)
(* and an initialiser that panics leaves the cell empty.                    *)

\* NumberedDirBuilder: the reuse function, the count, and whether the
\* initialiser that owns the builder writes the cargo-pid file
Builder(f, k, w) == [reuse_fn |-> f, count |-> k, pid_file |-> w]

\* no builder: a count is never 0
NoBuilder == Builder("none", 0, FALSE)

KEEP_DEFAULT == 8

\* init_testdir!, lines 138-140: NumberedDirBuilder::new("testdir") with reuse_cargo
MacroBuilder == Builder("reuse_cargo", KEEP_DEFAULT, TRUE)

\* the cell: its state, its value, the number of initialisers started on it
\* and the builder of the last one
EmptyCell(n) == [state |-> "empty", value |-> NoResult, runs |-> n, builder |-> NoBuilder]

\* the initialiser of p returns v: the cell is set, get_or_init hands it out
init_returns(p, v) ==
    /\ cell' = [cell EXCEPT ![process[p]] = [state |-> "set", value |-> v, runs |-> @.runs, builder |-> @.builder]]
    /\ testdir' = [testdir EXCEPT ![p] = v]
    /\ stage' = [stage EXCEPT ![p] = "none"]
    /\ UNCHANGED pc

\* the initialiser of p panics in an expect(): the cell stays empty
init_panics(p) ==
    /\ cell' = [cell EXCEPT ![process[p]] = EmptyCell(@.runs)]
    /\ pc' = [pc EXCEPT ![p] = "panicked"]
    /\ stage' = [stage EXCEPT ![p] = "none"]
    /\ UNCHANGED testdir

\* variant: callers do not wait for a running initialiser
get_or_init_unsynchronised(p, b) ==
    /\ stage[p] = "none"
    /\ pc[p] \in {"idle", "done"}
    /\ inits' = inits + 1
    /\ builder' = [builder EXCEPT ![p] = b]
    /\ IF cell[process[p]].state = "set"
       THEN /\ testdir' = [testdir EXCEPT ![p] = cell[process[p]].value]
            /\ UNCHANGED <<cell, stage>>
       ELSE /\ cell' = [cell EXCEPT ![process[p]] =
                            [state |-> "running", value |-> NoResult, runs |-> @.runs + 1,
                             builder |-> b]]
            /\ stage' = [stage EXCEPT ![p] = "builder"]
            /\ UNCHANGED testdir
    /\ UNCHANGED <<listed, readdir, process, cargo_pid>>
    /\ UNCHANGED <<parent_exists, dirs, link, subdirs, pid_files, pc, base, result,
                   create_locals, sub_vars>>

\* TESTDIR.get_or_init(|| ...): a set cell is handed out, an empty cell starts
\* the caller's initialiser, a cell being initialised makes the caller wait
get_or_init(p, b) ==
    /\ stage[p] = "none"
    /\ pc[p] \in {"idle", "done"}
    /\ cell[process[p]].state # "running"
    /\ inits' = inits + 1
    /\ builder' = [builder EXCEPT ![p] = b]
    /\ IF cell[process[p]].state = "set"
       THEN /\ testdir' = [testdir EXCEPT ![p] = cell[process[p]].value]
            /\ UNCHANGED <<cell, stage>>
       ELSE /\ cell' = [cell EXCEPT ![process[p]] =
                            [state |-> "running", value |-> NoResult, runs |-> @.runs + 1,
                             builder |-> b]]
            /\ stage' = [stage EXCEPT ![p] = "builder"]
            /\ UNCHANGED testdir
    /\ UNCHANGED <<listed, readdir, process, cargo_pid>>
    /\ UNCHANGED <<parent_exists, dirs, link, subdirs, pid_files, pc, base, result,
                   create_locals, sub_vars>>

\* NumberedDirBuilder::create, lines 177-182: create_dir_all of a missing
\* parent, which then is a directory
builder_create(p) ==
    /\ stage[p] = "builder"
    /\ parent_exists' = TRUE
    /\ stage' = [stage EXCEPT ![p] =
                    IF builder[p].reuse_fn = "none" THEN "fallback" ELSE "iterate"]
    /\ UNCHANGED <<listed, readdir, builder, cell, process, cargo_pid, inits, testdir>>
    /\ UNCHANGED <<dirs, link, subdirs, pid_files, pc, base, result, create_locals, sub_vars>>

\* NumberedDirBuilder::create, line 184: NumberedDir::iterate(&self.parent, &self.base)
builder_iterate(p) ==
    /\ stage[p] = "iterate"
    /\ base' = [base EXCEPT ![p] = TheBase]
    /\ readdir' = [readdir EXCEPT ![p] = read_dir(dirs, link)]
    /\ listed' = [listed EXCEPT ![p] = <<>>]
    /\ stage' = [stage EXCEPT ![p] = "reuse"]
    /\ UNCHANGED <<builder, cell, process, cargo_pid, inits, testdir>>
    /\ UNCHANGED <<parent_exists, dirs, link, subdirs, pid_files, pc, result,
                   create_locals, sub_vars>>

\* NumberedDirBuilder::create, lines 184-188: the next dirent of the iterator
\* and, when it yields an entry, reuse_fn reading its cargo-pid file
builder_reuse(p) ==
    /\ stage[p] = "reuse"
    /\ IF readdir[p] = {}
       THEN /\ stage' = [stage EXCEPT ![p] = "fallback"]
            /\ UNCHANGED <<readdir, listed, result, pc>>
       ELSE \E name \in readdir[p] :
                LET entry == numbered_entry(name, base[p])
                IN  /\ readdir' = [readdir EXCEPT ![p] = @ \ {name}]
                    /\ listed' = [listed EXCEPT ![p] =
                                    IF entry # NoEntry THEN Append(@, entry) ELSE @]
                    /\ IF entry # NoEntry /\ reuse_cargo(p, entry.path)
                       THEN /\ result' = [result EXCEPT ![p] = Ok(entry.path, entry.number)]
                            /\ pc' = [pc EXCEPT ![p] = "done"]
                            /\ stage' = [stage EXCEPT ![p] = "created"]
                       ELSE UNCHANGED <<result, pc, stage>>
    /\ UNCHANGED <<builder, cell, process, cargo_pid, inits, testdir>>
    /\ UNCHANGED <<parent_exists, dirs, link, subdirs, pid_files, base, create_locals, sub_vars>>

\* NumberedDirBuilder::create, line 190: NumberedDir::create(parent, base, count)
builder_fallback(p) ==
    /\ stage[p] = "fallback"
    /\ create(p, TheBase, builder[p].count)
    /\ stage' = [stage EXCEPT ![p] = "create"]
    /\ UNCHANGED <<listed, readdir, builder, cell, process, cargo_pid, inits, testdir>>

\* builder.create() has returned to the initialiser of p
builder_returned(p) ==
    \/ stage[p] = "created"
    \/ stage[p] = "create" /\ pc[p] \in {"done", "panicked"}

\* with_global_testdir, line 117: the initialiser is builder.create() alone
with_global_testdir(p) ==
    /\ builder_returned(p)
    /\ ~builder[p].pid_file
    /\ IF pc[p] = "done" /\ result[p].status = "ok"
       THEN init_returns(p, result[p])
       ELSE init_panics(p)
    /\ UNCHANGED <<listed, readdir, builder, process, cargo_pid, inits>>
    /\ UNCHANGED <<parent_exists, dirs, link, subdirs, pid_files, base, result,
                   create_locals, sub_vars>>

\* init_testdir!, lines 141-142, and create_cargo_pid_file, lines 90-93:
\* expect() on the builder's result, then file_name.exists()
create_cargo_pid_file(p) ==
    /\ builder_returned(p)
    /\ builder[p].pid_file
    /\ IF pc[p] # "done" \/ result[p].status # "ok"
       THEN init_panics(p)
       ELSE IF \/ cargo_pid[process[p]] = NoPid
               \/ \E f \in pid_files : f[1] = result[p].path
            THEN init_returns(p, result[p])
            ELSE /\ stage' = [stage EXCEPT ![p] = "write"]
                 /\ UNCHANGED <<cell, testdir, pc>>
    /\ UNCHANGED <<listed, readdir, builder, process, cargo_pid, inits>>
    /\ UNCHANGED <<parent_exists, dirs, link, subdirs, pid_files, base, result,
                   create_locals, sub_vars>>

\* create_cargo_pid_file, line 94: fs::write(file_name, pid.to_string()).expect()
write_cargo_pid(p) ==
    /\ stage[p] = "write"
    /\ IF result[p].path \in dirs
       THEN /\ pid_files' = {f \in pid_files : f[1] # result[p].path}
                                \cup {<<result[p].path, to_string(cargo_pid[process[p]])>>}
            /\ init_returns(p, result[p])
       ELSE /\ init_panics(p)
            /\ UNCHANGED pid_files
    /\ UNCHANGED <<listed, readdir, builder, process, cargo_pid, inits>>
    /\ UNCHANGED <<parent_exists, dirs, link, subdirs, base, result, create_locals, sub_vars>>

----------------------------------------------------------------------------
(* Initial states *)

\* no pid file has been written, no iterator has run, no global instance is set
NoOuterCalls ==
    /\ pid_files = {}
    /\ listed = [p \in Procs |-> <<>>]
    /\ readdir = [p \in Procs |-> {}]
    /\ stage = [p \in Procs |-> "none"]
    /\ builder = [p \in Procs |-> NoBuilder]
    /\ cell = [k \in Procs |-> EmptyCell(0)]
    /\ inits = 0
    /\ testdir = [p \in Procs |-> NoResult]

\* every caller is a process of its own, started outside Cargo
OwnProcesses ==
    /\ process = [p \in Procs |-> p]
    /\ cargo_pid = [k \in Procs |-> NoPid]

\* no create_subdir call has been made and no create_dir has failed
NoSubdirCalls ==
    /\ last_err = [p \in Procs |-> "none"]
    /\ subdirs = {}
    /\ rel_path = [p \in Procs |-> Path(FALSE, <<>>)]
    /\ full_path = [p \in Procs |-> <<>>]
    /\ suffix_i = [p \in Procs |-> 0]
    /\ subdir_result = [p \in Procs |-> NoSubdirResult]
    /\ carves = 0
    /\ carved = {}

InitIdle ==
    /\ pc = [p \in Procs |-> "idle"]
    /\ base = [p \in Procs |-> TheBase]
    /\ count = [p \in Procs |-> 1]
    /\ current_count = [p \in Procs |-> None]
    /\ obsolete = [p \in Procs |-> {}]
    /\ next_count = [p \in Procs |-> 0]
    /\ attempt = [p \in Procs |-> 0]
    /\ result = [p \in Procs |-> NoResult]
    /\ removals = 0
    /\ overlapped = [p \in Procs |-> {}]
    /\ shared = FALSE
    /\ retired = [p \in Procs |-> {}]
    /\ NoOuterCalls
    /\ NoSubdirCalls

InitLocals == InitIdle /\ OwnProcesses

\* an empty parent, as the tests set it up
InitEmpty ==
    /\ InitLocals
    /\ parent_exists = TRUE
    /\ dirs = {}
    /\ link = [b \in Bases |-> NoLink]
    /\ retention \in Counts
    /\ calls = 0

----------------------------------------------------------------------------
(* Sequential run: one caller, from an empty parent *)

SeqCreate == calls < MaxSeqCalls /\ create(1, TheBase, retention) /\ UNCHANGED outer_vars

NextSeq == SeqCreate \/ Steps

SpecSeq == InitEmpty /\ [][NextSeq]_vars

(* Concurrent run: MaxProcs callers, from an empty parent *)

ConcCreate ==
    \E p \in Procs :
        calls < MaxConcCalls /\ create(p, TheBase, retention) /\ UNCHANGED outer_vars

NextConc == ConcCreate \/ Steps

SpecConc == InitEmpty /\ [][NextConc]_vars

(* Fault run: concurrent callers, filesystem calls that fail, bases with *)
(* path separators, a parent that is not there yet                      *)

InitAbsent ==
    /\ InitLocals
    /\ parent_exists = FALSE
    /\ dirs = {}
    /\ link = [b \in Bases |-> NoLink]
    /\ retention \in Counts
    /\ calls = 0

InitFault == InitEmpty \/ InitAbsent

FaultBases == {TheBase, <<"b", "/">>, <<"\\", "b">>}

FaultCreate ==
    \E p \in Procs, b \in FaultBases :
        calls < MaxFaultCalls /\ create(p, b, retention) /\ UNCHANGED outer_vars

Faults == \E p \in Procs : remove_dir_all_fails(p) \/ create_dir_fails(p)

NextFault == FaultCreate \/ Steps \/ Faults

SpecFault == InitFault /\ [][NextFault]_vars

(* Scan fault run: concurrent callers from an empty parent, with listings *)
(* of the parent that fail                                               *)

ScanFaultCreate ==
    \E p \in Procs :
        calls < MaxScanFaultCalls /\ create(p, TheBase, retention) /\ UNCHANGED outer_vars

ScanFaults == \E p \in Procs : scan_current_fails(p)

NextScanFault == ScanFaultCreate \/ Steps \/ ScanFaults

SpecScanFault == InitEmpty /\ [][NextScanFault]_vars

(* Subdirectory runs: the callers hold the NumberedDir of the first create *)
(* on an empty parent                                                     *)

InitSub ==
    /\ retention \in Counts
    /\ parent_exists = TRUE
    /\ dirs = {numbered_name(TheBase, 0)}
    /\ link = [b \in Bases |-> IF b = TheBase THEN numbered_name(TheBase, 0) ELSE NoLink]
    /\ pc = [p \in Procs |-> "done"]
    /\ base = [p \in Procs |-> TheBase]
    /\ count = [p \in Procs |-> retention]
    /\ current_count = [p \in Procs |-> None]
    /\ obsolete = [p \in Procs |-> {}]
    /\ next_count = [p \in Procs |-> 0]
    /\ attempt = [p \in Procs |-> 0]
    /\ result = [p \in Procs |-> Ok(numbered_name(TheBase, 0), 0)]
    /\ calls = 1
    /\ removals = 0
    /\ overlapped = [p \in Procs |-> {}]
    /\ shared = FALSE
    /\ retired = [p \in Procs |-> {}]
    /\ NoOuterCalls
    /\ OwnProcesses
    /\ NoSubdirCalls

\* "s" and "a/b/c"
LeafPath == Path(FALSE, <<<<"s">>>>)

NestedPath == Path(FALSE, <<<<"a">>, <<"b">>, <<"c">>>>)

\* "", "/", "..", "a/..", "/s"
BadPaths ==
    {Path(FALSE, <<>>), Path(TRUE, <<>>), Path(FALSE, <<DotDot>>),
     Path(FALSE, <<<<"a">>, DotDot>>), Path(TRUE, <<<<"s">>>>)}

SubPaths == {LeafPath, NestedPath} \cup BadPaths

SubCreate ==
    \E p \in Procs, path \in SubPaths : carves < MaxCarves /\ create_subdir(p, path)

SubSteps == \E p \in Procs : subdir_create_dir(p)

NextSub == SubCreate \/ SubSteps

SpecSub == InitSub /\ [][NextSub]_vars

(* Subdirectory run with retirement: the callers hold b-0, the second one *)
(* goes on allocating while both carve subdirectories                     *)

RetireCreate ==
    calls < MaxRetireCalls /\ create(2, TheBase, retention) /\ UNCHANGED outer_vars

RetireSubCreate ==
    \E p \in Procs, path \in {LeafPath, NestedPath} :
        carves < MaxRetireCarves /\ create_subdir(p, path)

NextSubRetire == RetireCreate \/ Steps \/ RetireSubCreate \/ SubSteps

SpecSubRetire == InitSub /\ [][NextSubRetire]_vars

\* one caller carving one path again and again
SubSeqCreate ==
    \E path \in {LeafPath, NestedPath} :
        /\ carves < MaxSeqCarves
        /\ carves = 0 \/ path = rel_path[1]
        /\ create_subdir(1, path)

NextSubSeq == SubSeqCreate \/ SubSteps

SpecSubSeq == InitSub /\ [][NextSubSeq]_vars

(* Subdirectory fault run: the first create_subdir call on the numbered *)
(* directory, with fs::create_dir calls that fail                       *)

SubFaultCreate == carves = 0 /\ create_subdir(1, LeafPath)

SubFaults == \E p \in Procs : subdir_create_dir_fails(p)

NextSubFault == SubFaultCreate \/ SubSteps \/ SubFaults

SpecSubFault == InitSub /\ [][NextSubFault]_vars

(* Iterator run: NumberedDir::iterate over a parent that holds up to      *)
(* MaxEntries entries of any names (the iterator does not look at the    *)
(* type of an entry) and possibly the link b-current                     *)

NamePool ==
    { <<"o", "o", "p", "s">>,
      <<"c", "-", "3">>,
      <<"b">>,
      <<"b", "-">>,
      <<"b", "-", "0">>,
      <<"b", "-", "7">>,
      <<"b", "-", "0", "0", "7">>,
      <<"b", "-", "+", "7">>,
      <<"b", "-", "-", "1">>,
      <<"b", "-", "1", "x">>,
      <<"b", "-", "6", "5", "5", "3", "5">>,
      <<"b", "-", "6", "5", "5", "3", "6">> }

InitIter ==
    /\ InitLocals
    /\ parent_exists = TRUE
    /\ dirs \in {d \in SUBSET NamePool : Cardinality(d) <= MaxEntries}
    /\ link \in [Bases -> {NoLink, numbered_name(TheBase, 0)}]
    /\ retention = 1
    /\ calls = 0

IterNew == try_new(1, TheBase)

IterNext == next(1)

NextIter == IterNew \/ IterNext

SpecIter == InitIter /\ [][NextIter]_vars

(* Testdir run: the callers are threads of one process or a process each, *)
(* under Cargo processes or none; each call is init_testdir! or          *)
(* with_global_testdir with a builder of the caller's choice; the parent *)
(* starts empty                                                          *)

CargoPids == 1 .. MaxCargoPids

InitTestdir ==
    /\ InitIdle
    /\ process \in {[p \in Procs |-> 1], [p \in Procs |-> p]}
    /\ cargo_pid \in [Procs -> CargoPids \cup {NoPid}]
    /\ \A k \in Procs : (\A p \in Procs : process[p] # k) => cargo_pid[k] = NoPid
    /\ parent_exists \in BOOLEAN
    /\ dirs = {}
    /\ link = [b \in Bases |-> NoLink]
    /\ retention = 1
    /\ calls = 0

InitTestdirCall == \E p \in Procs : inits < MaxInits /\ get_or_init(p, MacroBuilder)

WithGlobalTestdirCall ==
    \E p \in Procs, f \in {"none", "reuse_cargo"}, k \in Counts :
        inits < MaxInits /\ get_or_init(p, Builder(f, k, FALSE))

BuilderSteps ==
    \E p \in Procs :
        \/ builder_create(p)
        \/ builder_iterate(p)
        \/ builder_reuse(p)
        \/ builder_fallback(p)
        \/ with_global_testdir(p)
        \/ create_cargo_pid_file(p)
        \/ write_cargo_pid(p)

NextTestdir == InitTestdirCall \/ WithGlobalTestdirCall \/ BuilderSteps \/ Steps

SpecTestdir == InitTestdir /\ [][NextTestdir]_vars

(* Wrap run: one caller, continuing the sequential run across number 65535 *)

WrapStart == U16_RANGE - WrapLead

\* the state of the sequential run when its call number WrapStart has returned
WrapState ==
    /\ parent_exists = TRUE
    /\ dirs = {numbered_name(TheBase, n) : n \in (WrapStart - retention) .. (WrapStart - 1)}
    /\ link = [b \in Bases |->
                 IF b # TheBase THEN NoLink
                 ELSE IF retention = 1 THEN numbered_name(TheBase, 0)
                 ELSE numbered_name(TheBase, WrapStart - 1)]
    /\ pc = [p \in Procs |-> IF p = 1 THEN "done" ELSE "idle"]
    /\ base = [p \in Procs |-> TheBase]
    /\ count = [p \in Procs |-> IF p = 1 THEN retention ELSE 1]
    /\ current_count = [p \in Procs |-> IF p = 1 THEN WrapStart - 2 ELSE None]
    /\ obsolete = [p \in Procs |-> {}]
    /\ next_count = [p \in Procs |-> IF p = 1 THEN WrapStart - 1 ELSE 0]
    /\ attempt = [p \in Procs |-> 0]
    /\ result = [p \in Procs |->
                   IF p = 1
                   THEN Ok(numbered_name(TheBase, WrapStart - 1), WrapStart - 1)
                   ELSE NoResult]
    /\ calls = WrapStart
    /\ removals = WrapStart - retention
    /\ overlapped = [p \in Procs |-> {}]
    /\ shared = FALSE
    /\ retired = [p \in Procs |->
                    IF p = 1 THEN {numbered_name(TheBase, WrapStart - 1 - retention)}
                    ELSE {}]
    /\ NoOuterCalls
    /\ OwnProcesses
    /\ NoSubdirCalls

InitWrap == retention \in Counts /\ WrapState

WrapCreate ==
    calls < WrapStart + MaxWrapCalls /\ create(1, TheBase, retention) /\ UNCHANGED outer_vars

NextWrap == WrapCreate \/ Steps

SpecWrap == InitWrap /\ [][NextWrap]_vars

\* the sequential run from an empty parent arrives at the state the wrap run starts in
SeqArrivesAtWrapState == (calls = WrapStart /\ pc[1] = "done") => WrapState

----------------------------------------------------------------------------
(* Claims about sequential runs *)

Min(a, b) == IF a < b THEN a ELSE b

numbers_of(b) == {e.number : e \in iterate(dirs, link, b)}

returned(p) == pc[p] = "done" /\ result[p].status = "ok"

\* C1: in a sequential run on an initially empty parent with retention count
\* k and fewer than 65536 calls, after the n-th call exactly min(n, k)
\* numbered directories exist, the ones numbered n-min(n,k) .. n-1.
C1_RetainedWindow ==
    (pc[1] = "done" /\ calls >= 1 /\ calls <= U16_MAX) =>
        /\ Cardinality(iterate(dirs, link, TheBase)) = Min(calls, retention)
        /\ Cardinality(dirs) = Min(calls, retention)
        /\ numbers_of(TheBase) = (calls - Min(calls, retention)) .. (calls - 1)

C1_Witness ==
    /\ pc[1] = "done"
    /\ calls = retention + 2
    /\ removals = 2
    /\ numbers_of(TheBase) = 2 .. (retention + 1)

\* C2: the first k sequential create calls on an empty parent return the
\* numbers 0, 1, ..., k-1 in this order and remove nothing, so that exactly k
\* numbered directories with consecutive numbers from 0 exist afterwards.
C2_FirstCallsFillWindow ==
    (pc[1] = "done" /\ calls >= 1 /\ calls <= retention) =>
        /\ result[1] = Ok(numbered_name(TheBase, calls - 1), calls - 1)
        /\ removals = 0
        /\ dirs = {numbered_name(TheBase, n) : n \in 0 .. (calls - 1)}

C2_Witness ==
    /\ pc[1] = "done"
    /\ retention = MaxCount
    /\ calls = retention
    /\ result[1].number = retention - 1
    /\ Cardinality(dirs) = retention

\* C3: after every successful sequential create call the link {base}-current
\* points at the path of the numbered directory the call returned.
C3_CurrentPointsAtNewest ==
    returned(1) => link[TheBase] = result[1].path

----------------------------------------------------------------------------
(* Claims about the wrap of the numbering *)

\* C9: in a sequential run that continues beyond number 65535 no create call
\* ever fails.
C9_NoFailureAfterWrap == pc[1] = "done" => result[1].status = "ok"

\* C10: when the highest existing number is 65535 and no directory {base}-0
\* exists, create takes the candidate 65535 + 1 = 0 (wrapping) and returns the
\* directory numbered 0.
C10_WrapsToZero ==
    /\ (pc[1] = "create_dir" /\ attempt[1] = 0 /\ current_count[1] = U16_MAX) =>
           next_count[1] = 0
    /\ (pc[1] \in {"exists", "remove_file", "symlink_dir"}
           /\ current_count[1] = U16_MAX /\ attempt[1] = 0) =>
           /\ next_count[1] = 0
           /\ numbered_name(TheBase, 0) \in dirs
    /\ (pc[1] = "done" /\ current_count[1] = U16_MAX /\ attempt[1] = 0) =>
           result[1] = Ok(numbered_name(TheBase, 0), 0)

C10_Witness ==
    /\ pc[1] = "done"
    /\ current_count[1] = U16_MAX
    /\ result[1].status = "ok"
    /\ result[1].number = 0
    /\ result[1].path = <<"b", "-", "0">>

----------------------------------------------------------------------------
(* Claims about concurrent runs *)

completes(p) == pc[p] # "done" /\ pc'[p] = "done" /\ result'[p].status = "ok"

\* C4: in any interleaving of concurrent create calls on the same parent and
\* base no two successful calls return the same numbered directory.
C4_NoSharedDirectory == ~shared

\* C5: whenever one of several concurrent create calls with retention count k
\* completes successfully, at most k numbered directories exist.
C5_AtMostCountOnCompletion ==
    [][\A p \in Procs :
          completes(p) => Cardinality(iterate(dirs', link', base[p])) <= count[p]]_vars

\* C6: when at most 16 create calls run concurrently and the filesystem fails
\* only through the callers' own races, every call returns a NumberedDir.
C6_EveryCallSucceeds == \A p \in Procs : result[p].status # "err"

\* C5 as amended: with N callers, in a run from an empty parent that stays
\* below number 32767, at most k + N - 1 numbered directories exist whenever
\* a call completes successfully.
C5_AtMostCountPlusRacers ==
    [][\A p \in Procs :
          completes(p) =>
              Cardinality(iterate(dirs', link', base[p])) <= count[p] + MaxProcs - 1]_vars

C5_Witness ==
    \E p \in Procs :
        /\ returned(p)
        /\ Cardinality(iterate(dirs, link, base[p])) = count[p] + MaxProcs - 1
        /\ \E q \in Procs \ {p} : in_call(q)

----------------------------------------------------------------------------
(* Arc run: remove_obsolete_dirs applied to sampled inputs.  Process 1 is  *)
(* about to retire with the result `current` of its scan; the parent holds *)
(* one or two numbered directories, which racing callers may have created  *)
(* or removed since the scan.                                               *)

HALF == U16_MAX \div 2

around(pivot) == {wrapping_add(pivot, U16_RANGE + d) : d \in (0 - ArcSpan) .. ArcSpan}

ArcCurrents == around(0) \cup around(U8_MAX - 2) \cup around(HALF + 1) \cup around(U16_MAX)

ArcCounts == (1 .. (1 + ArcSpan)) \cup {U8_MAX}

ArcNumbers(current, keep) ==
    around(oldest_to_keep(current, keep))
        \cup around(oldest_to_delete(current))
        \cup {wrapping_add(current, 1), wrapping_add(current, MAX_TRIES),
              wrapping_add(current, MAX_TRIES + 1)}

InitArc ==
    /\ retention \in ArcCounts
    /\ \E c \in ArcCurrents :
          /\ current_count = [p \in Procs |-> IF p = 1 THEN c ELSE None]
          /\ \E n1 \in ArcNumbers(c, retention - 1), n2 \in ArcNumbers(c, retention - 1) :
                dirs = {numbered_name(TheBase, n1), numbered_name(TheBase, n2)}
    /\ parent_exists = TRUE
    /\ link = [b \in Bases |-> NoLink]
    /\ pc = [p \in Procs |-> IF p = 1 THEN "remove_obsolete_dirs" ELSE "idle"]
    /\ base = [p \in Procs |-> TheBase]
    /\ count = [p \in Procs |-> IF p = 1 THEN retention ELSE 1]
    /\ obsolete = [p \in Procs |-> {}]
    /\ next_count = [p \in Procs |-> 0]
    /\ attempt = [p \in Procs |-> 0]
    /\ result = [p \in Procs |-> NoResult]
    /\ calls = 1
    /\ removals = 0
    /\ overlapped = [p \in Procs |-> {}]
    /\ shared = FALSE
    /\ retired = [p \in Procs |-> {}]
    /\ NoOuterCalls
    /\ OwnProcesses
    /\ NoSubdirCalls

NextArc == \E p \in Procs : remove_obsolete_dirs(p) \/ remove_dir_all(p)

SpecArc == InitArc /\ [][NextArc]_vars

\* the ring interval [start, stop) of the numbers modulo 65536
in_ring_interval(n, start, stop) ==
    ((n - start + U16_RANGE) % U16_RANGE) < ((stop - start + U16_RANGE) % U16_RANGE)

\* the delete arc: outside the ring interval from current - keep + 1 up to,
\* not including, current + 32767
in_delete_arc(n, current, keep) ==
    ~in_ring_interval(n, (current - keep + 1 + U16_RANGE) % U16_RANGE,
                         (current + 32767) % U16_RANGE)

number_of(path) == parse_u16(strip_prefix(path, prefix_of(TheBase)))

retiring(p) == pc[p] \in {"remove_obsolete_dirs", "remove_dir_all"}

\* C7: for current near the top of the 16-bit range and every keep,
\* remove_obsolete_dirs(current, keep) does not delete an entry numbered n
\* with 1 <= (n - current) mod 65536 <= 16.
C7_RacerAboveWrapSpared ==
    [][\A p \in Procs :
          (retiring(p) /\ current_count[p] >= U16_MAX - ArcSpan) =>
              \A path \in dirs \ dirs' :
                  LET ahead == (number_of(path) - current_count[p] + U16_RANGE) % U16_RANGE
                  IN  ~(1 <= ahead /\ ahead <= MAX_TRIES)]_vars

C7_Witness ==
    /\ pc[1] = "create_dir"
    /\ current_count[1] = U16_MAX
    /\ removals = 1
    /\ \E path \in dirs : number_of(path) < MAX_TRIES

\* C8: remove_obsolete_dirs deletes the entry numbered n if and only if n lies
\* in the delete arc, i.e. outside the ring interval that starts at
\* oldest_to_keep = current - keep + 1 and ends just before oldest_to_delete =
\* current + 32767 (u16::MAX / 2), both modulo 65536.
C8_DeletesExactlyDeleteArc ==
    /\ [](\A p \in Procs :
            pc[p] = "create_dir" =>
                \A path \in dirs :
                    ~in_delete_arc(number_of(path), current_count[p], count[p] - 1))
    /\ [][\A p \in Procs :
            retiring(p) =>
                \A path \in dirs \ dirs' :
                    in_delete_arc(number_of(path), current_count[p], count[p] - 1)]_vars

C8_Witness ==
    /\ pc[1] = "create_dir"
    /\ removals = 1
    /\ Cardinality(dirs) = 1
    /\ oldest_to_keep(current_count[1], count[1] - 1) > oldest_to_delete(current_count[1])

----------------------------------------------------------------------------
(* Errors of create *)

\* C11: a failure to remove an obsolete directory during retirement does not
\* fail the create call that triggered it: no call ends with the removal error.
C11_RemovalFailureNotFatal ==
    \A p \in Procs : pc[p] = "done" => result[p].err # "Failed to remove"

\* C12: when fs::create_dir fails with an error that is not an 'already
\* exists' collision, create returns that error at once, after this single
\* failed attempt, and tries no other number.
C12_FaultPropagatesImmediately ==
    [][\A p \in Procs :
          (attempt'[p] = attempt[p] + 1 /\ last_err'[p] = "PermissionDenied") =>
              (pc'[p] = "done" /\ result'[p].status = "err")]_vars

\* the number create hands to create_next_dir
first_candidate(p) ==
    IF current_count[p] = None THEN 0 ELSE (current_count[p] + 1) % U16_RANGE

\* C13: from candidate c, create_next_dir attempts c, c+1, .., c+15 modulo
\* 65536 in this order, stops at and returns the first number whose directory
\* creation succeeds, returns an error carrying the last creation error if and
\* only if all 16 attempts fail, and never makes a 17th attempt.
C13_SixteenAttemptsInOrder ==
    /\ [](\A p \in Procs :
            /\ attempt[p] <= MAX_TRIES
            /\ pc[p] = "create_dir" =>
                  /\ attempt[p] < MAX_TRIES
                  /\ next_count[p] = (first_candidate(p) + attempt[p]) % U16_RANGE
            /\ attempt[p] = MAX_TRIES <=>
                  (pc[p] = "done" /\ result[p].err = "Failed to create numbered dir")
            /\ result[p].err = "Failed to create numbered dir" =>
                  /\ result[p].cause = last_err[p]
                  /\ result[p].cause \in {"AlreadyExists", "PermissionDenied"})
    /\ [][\A p \in Procs :
            /\ attempt'[p] = attempt[p] + 1 =>
                  /\ pc[p] = "create_dir"
                  /\ dirs' = dirs
                  /\ last_err'[p] # "none"
                  /\ numbered_name(base[p], next_count[p]) \notin read_dir(dirs, link) =>
                        last_err'[p] = "PermissionDenied"
            /\ (pc[p] = "create_dir" /\ pc'[p] = "exists") =>
                  /\ numbered_name(base[p], next_count[p]) \notin dirs
                  /\ dirs' = dirs \cup {numbered_name(base[p], next_count[p])}
                  /\ attempt'[p] = attempt[p]
                  /\ next_count'[p] = next_count[p]
            /\ completes(p) =>
                  result'[p].number = (first_candidate(p) + attempt[p]) % U16_RANGE]_vars

C13_Witness ==
    \E p \in Procs, q \in Procs :
        /\ pc[p] = "done"
        /\ result[p].err = "Failed to create numbered dir"
        /\ result[p].cause = "PermissionDenied"
        /\ current_count[p] = None
        /\ next_count[p] = MAX_TRIES
        /\ returned(q)
        /\ result[q].number = 0

\* C14: every NumberedDir returned by create has path = parent/"{base}-{number}"
\* where number is the number of the directory this call created, also when
\* collisions made the call go on to a number other than its first candidate.
C14_PathNamesCreatedNumber ==
    /\ [](\A p \in Procs :
            returned(p) =>
                /\ result[p].path = base[p] \o <<"-">> \o to_string(result[p].number)
                /\ parse_u16(strip_prefix(result[p].path, prefix_of(base[p])))
                      = result[p].number)
    /\ [][\A p \in Procs :
            /\ (pc[p] = "create_dir" /\ pc'[p] = "exists") =>
                  dirs' \ dirs = {numbered_name(base[p], next_count'[p])}
            /\ pc[p] \in {"exists", "remove_file", "symlink_dir"} =>
                  next_count'[p] = next_count[p]
            /\ completes(p) => result'[p].number = next_count[p]]_vars

C14_Witness ==
    \E p \in Procs :
        /\ returned(p)
        /\ attempt[p] > 0
        /\ last_err[p] = "AlreadyExists"
        /\ result[p].number # first_candidate(p)

----------------------------------------------------------------------------
(* create_subdir *)

subdir_completes(p) ==
    /\ pc[p] = "subdir_create_dir"
    /\ pc'[p] = "done"
    /\ subdir_result'[p].status = "ok"

\* C15: in any interleaving of concurrent create_subdir calls with the same
\* relative path on the same numbered directory, every successful call returns
\* a directory that was not there before the call created it, and no two calls
\* return the same path.
C15_SubdirsFreshAndDistinct ==
    [][\A p \in Procs :
          subdir_completes(p) =>
              LET made == subdir_result'[p].path
              IN  /\ made \notin subdirs
                  /\ made \in subdirs'
                  /\ made \notin carved
                  /\ subdirs \subseteq subdirs']_vars

C15_Witness ==
    /\ carves = 2
    /\ rel_path[1] = LeafPath
    /\ rel_path[2] = LeafPath
    /\ \A p \in {1, 2} : pc[p] = "done" /\ subdir_result[p].status = "ok"
    /\ suffix_i[1] = 1
    /\ subdir_result[1].path # subdir_result[2].path

\* the name the call of p attempts after i failed attempts
attempted_name(p, i) ==
    LET leaf == rel_path[p].components[Len(rel_path[p].components)]
    IN  IF i = 0 THEN leaf ELSE leaf \o <<"-">> \o to_string(i - 1)

\* at most 65535 attempts, in the order unsuffixed, -0, -1, ..; the error
\* 'all filename alternatives exhausted' if and only if all of them failed
subdir_attempts_bounded ==
    \A p \in Procs :
        /\ suffix_i[p] <= U16_MAX
        /\ pc[p] = "subdir_create_dir" =>
              /\ suffix_i[p] < U16_MAX
              /\ full_path[p][Len(full_path[p])] = attempted_name(p, suffix_i[p])
        /\ (pc[p] = "done" /\ suffix_i[p] = U16_MAX) <=>
              subdir_result[p].err = "subdir conflict: all filename alternatives exhausted"
        /\ subdir_result[p].status = "ok" =>
              /\ suffix_i[p] < U16_MAX
              /\ subdir_result[p].path[Len(full_path[p])] = attempted_name(p, suffix_i[p])

\* C26: create_subdir makes at most 65535 attempts for one call, the
\* unsuffixed name and then the suffixes -0, -1, .. in increasing order, every
\* name it computes being attempted, and returns the error 'all filename
\* alternatives exhausted' if and only if all attempts fail.
C26_EveryComputedNameAttempted ==
    /\ []subdir_attempts_bounded
    /\ [][\A p \in Procs :
            (pc[p] = "subdir_create_dir" /\ full_path'[p] # full_path[p]) =>
                pc'[p] = "subdir_create_dir"]_vars

\* C26 as amended: at most 65535 attempts, the unsuffixed name and then the
\* suffixes -0 .. -65533 in increasing order; the error if and only if all
\* 65535 attempts fail; the name with suffix -65534, computed after the last
\* failure, is never attempted, so no directory of that name is created and
\* at most 65535 directories of one name exist.
C26_AttemptsEndAtSuffix65533 ==
    /\ []subdir_attempts_bounded
    /\ [](\A made \in subdirs :
            made[Len(made)] # <<"s", "-", "6", "5", "5", "3", "4">>)
    /\ [][\A p \in Procs :
            (pc[p] = "subdir_create_dir" /\ full_path'[p] # full_path[p]) =>
                (pc'[p] = "subdir_create_dir" <=> suffix_i'[p] < U16_MAX)]_vars

C26_Witness ==
    /\ pc[1] = "done"
    /\ subdir_result[1].err = "subdir conflict: all filename alternatives exhausted"
    /\ suffix_i[1] = U16_MAX
    /\ full_path[1] = <<result[1].path, <<"s", "-", "6", "5", "5", "3", "4">>>>
    /\ full_path[1] \notin subdirs

\* the last component of the relative path
leaf_of(path) == path.components[Len(path.components)]

\* the directory on disk the relative path of p's call leads into
dir_of(p) ==
    <<result[p].path>> \o SubSeq(rel_path[p].components, 1, Len(rel_path[p].components) - 1)

\* what the j-th of the calls with p's path in a row is to return
nth_carve(p, j) ==
    dir_of(p) \o <<IF j = 1 THEN leaf_of(rel_path[p])
                   ELSE leaf_of(rel_path[p]) \o <<"-">> \o to_string(j - 2)>>

\* C16: n calls of create_subdir in a row with the same leaf name on the same
\* numbered directory return n distinct directories that all exist together:
\* the first call the unsuffixed name, the j-th call the name with suffix
\* -(j-2).
C16_RepeatedCarvesInSuffixOrder ==
    (pc[1] = "done" /\ carves >= 1) =>
        /\ subdir_result[1] = SubdirOk(nth_carve(1, carves))
        /\ carved = {nth_carve(1, j) : j \in 1 .. carves}
        /\ Cardinality(carved) = carves
        /\ carved \subseteq subdirs

C16_Witness ==
    /\ pc[1] = "done"
    /\ rel_path[1] = LeafPath
    /\ carves = 13
    /\ subdir_result[1].path = <<result[1].path, <<"s", "-", "1", "1">>>>

\* C17: create_subdir creates the missing ancestors of a nested path and
\* accepts the ones that are there: carving "a/b/c" twice succeeds both times,
\* the second call returns a/b/c-0, the suffix goes on the last component
\* only, and a and a/b exist once.
C17_NestedCarveSharesAncestors ==
    (pc[1] = "done" /\ carves >= 1 /\ rel_path[1] = NestedPath) =>
        LET d == result[1].path
        IN  /\ subdir_result[1].status = "ok"
            /\ carves = 2 =>
                  subdir_result[1].path = <<d, <<"a">>, <<"b">>, <<"c", "-", "0">>>>
            /\ subdirs \ carved = {<<d, <<"a">>>>, <<d, <<"a">>, <<"b">>>>}
            /\ \A made \in carved :
                  Len(made) = 4 /\ SubSeq(made, 1, 3) = <<d, <<"a">>, <<"b">>>>

C17_Witness ==
    /\ pc[1] = "done"
    /\ carves = 2
    /\ subdirs = {<<result[1].path, <<"a">>>>,
                  <<result[1].path, <<"a">>, <<"b">>>>,
                  <<result[1].path, <<"a">>, <<"b">>, <<"c">>>>,
                  <<result[1].path, <<"a">>, <<"b">>, <<"c", "-", "0">>>>}

\* a path that is not relative or has no final component
rejected_path(path) ==
    \/ path.absolute
    \/ path.components = <<>>
    \/ path.components[Len(path.components)] = <<".", ".">>

\* C18: create_subdir returns an error and creates no directory, neither
\* ancestors nor target, when the path is not relative or has no final
\* component (the empty path, the root, a path ending in '..').
C18_RejectedPathCreatesNothing ==
    [][\A p \in Procs :
          (/\ carves' = carves + 1
           /\ rejected_path(rel_path'[p])
           /\ pc'[p] # "done" \/ subdir_result'[p] # NoSubdirResult
           /\ \A q \in Procs \ {p} : pc'[q] = pc[q] /\ rel_path'[q] = rel_path[q]) =>
              /\ pc'[p] = "done"
              /\ subdir_result'[p].status = "err"
              /\ UNCHANGED <<parent_exists, dirs, link, subdirs, carved>>]_vars

C18_Witness ==
    \E p \in Procs :
        /\ pc[p] = "done"
        /\ carves = 1
        /\ rel_path[p] = Path(FALSE, <<<<"a">>, DotDot>>)
        /\ subdir_result[p].err = "Subdir does not end in a filename"
        /\ subdirs = {}

----------------------------------------------------------------------------
(* The base and the iterator *)

has_separator(b) == \E i \in DOMAIN b : b[i] = "/" \/ b[i] = "\\"

\* C19: create with a base containing '/' or '\' returns an error before
\* touching the filesystem: the parent is not created, nothing is scanned or
\* removed, no directory is created and {base}-current is not modified.
C19_BadBaseTouchesNothing ==
    [][\A p \in Procs :
          (/\ calls' = calls + 1
           /\ has_separator(base'[p])
           /\ \A q \in Procs \ {p} :
                 pc'[q] = pc[q] /\ base'[q] = base[q] /\ result'[q] = result[q]) =>
              /\ pc'[p] = "done"
              /\ result'[p].status = "err"
              /\ UNCHANGED <<parent_exists, dirs, link, subdirs>>]_vars

C19_Witness ==
    \E p \in Procs :
        /\ pc[p] = "done"
        /\ base[p] = <<"\\", "b">>
        /\ result[p].err = "base must not contain path separators"
        /\ ~parent_exists
        /\ calls = 1

\* C20: NumberedDir::iterate run right after a successful create on the same
\* parent and base, no other process acting in between, yields an entry equal
\* to the returned NumberedDir: same number, base and path.
C20_IterateYieldsReturned ==
    \A p \in Procs :
        returned(p) =>
            [path |-> result[p].path, base |-> base[p], number |-> result[p].number]
                \in iterate(dirs, link, base[p])

C20_Witness ==
    /\ returned(1)
    /\ result[1].number = 100
    /\ Cardinality(iterate(dirs, link, base[1])) = 3

----------------------------------------------------------------------------
(* Retirement and the numbers ahead of current *)

\* how far the number of the entry lies ahead of current on the ring
ahead_of(path, current) == (number_of(path) - current + U16_RANGE) % U16_RANGE

C27_OwnNumberNotRetired ==
    /\ [](\A p \in Procs :
            pc[p] \in {"create_dir", "exists", "remove_file", "symlink_dir"} =>
                numbered_name(base[p], next_count[p]) \notin retired[p])
    /\ [][\A p \in Procs :
            completes(p) =>
                /\ result'[p].path \notin retired[p]
                /\ \A path \in retired[p] :
                      /\ number_of(path) # result'[p].number
                      /\ ~(1 <= ahead_of(path, current_count[p])
                            /\ ahead_of(path, current_count[p]) <= MAX_TRIES)]_vars

C27_Witness ==
    \E p \in Procs :
        /\ returned(p)
        /\ retired[p] # {}
        /\ attempt[p] > 0

\* C28: the assertion oldest_to_keep != oldest_to_delete of
\* remove_obsolete_dirs never fails in a call made through create: for the
\* current of every such call and every keep = count - 1 with count in
\* 1 .. 255 the two wrapped values differ.
C28_AssertionNeverFails ==
    \A p \in Procs :
        /\ pc[p] # "panicked"
        /\ pc[p] = "remove_obsolete_dirs" =>
              \A k \in 1 .. U8_MAX :
                  (current_count[p] - (k - 1) + 1 + U16_RANGE) % U16_RANGE
                      # (current_count[p] + 32767) % U16_RANGE

C28_Witness ==
    /\ pc[1] = "create_dir"
    /\ current_count[1] = 32769
    /\ retired[1] # {}

\* C29: inside create the retirement with keep = count - 1 is over before the
\* new directory is created, so in sequential use with a fixed count k no
\* state, intermediate ones included, has more than k numbered directories.
C29_NeverMoreThanCount ==
    /\ [](Cardinality({d \in dirs : starts_with(d, prefix_of(TheBase))}) <= retention)
    /\ [][\A p \in Procs :
            (pc[p] = "create_dir" /\ dirs' # dirs) => obsolete[p] = {}]_vars

\* C30: a stale {base}-current link does not survive a successful
\* allocation: when create returns its new directory, {base}-current is not
\* a link to a directory that has been retired.
C30_NoStaleLinkAfterCreate ==
    [][\A p \in Procs :
          completes(p) =>
              (link'[base[p]] = NoLink \/ link'[base[p]] \in dirs')]_vars

----------------------------------------------------------------------------
(* The iterator over a parent of any content *)

\* the number a text of decimal digits stands for
RECURSIVE decimal(_)
decimal(t) ==
    IF t = <<>> THEN 0
    ELSE decimal(SubSeq(t, 1, Len(t) - 1)) * 10
            + (CHOOSE d \in 0 .. 9 : to_string(d) = <<t[Len(t)]>>)

\* the digits of a text that u16's FromStr accepts: an optional "+", then
\* one or more decimal digits standing for a number up to 65535
digits_of(t) == IF t # <<>> /\ t[1] = "+" THEN Tail(t) ELSE t

denotes_u16(t) ==
    /\ digits_of(t) # <<>>
    /\ \A i \in 1 .. Len(digits_of(t)) :
            digits_of(t)[i] \in {"0", "1", "2", "3", "4", "5", "6", "7", "8", "9"}
    /\ decimal(digits_of(t)) <= U16_MAX

\* name is "{b}-" followed by the text t
numbered_text(name, b, t) == name = b \o <<"-">> \o t

is_numbered(name, b) ==
    \E k \in 0 .. Len(name) :
        /\ numbered_text(name, b, SubSeq(name, k + 1, Len(name)))
        /\ denotes_u16(SubSeq(name, k + 1, Len(name)))

\* C21: NumberedDir::iterate(parent, base) yields exactly one entry for each
\* directory entry of the parent whose name is "{base}-" followed by a text
\* that parses as a 16-bit unsigned number, with that name as its path and
\* that number as its number, and nothing else: a file 'oops', entries of
\* another base and the link {base}-current are skipped, and the iterator
\* runs to its end.
C21_IterateYieldsNumberedEntries ==
    LET l == listed[1]
    IN  /\ \A i, j \in 1 .. Len(l) : i # j => l[i].path # l[j].path
        /\ \A i \in 1 .. Len(l) :
                /\ l[i].path \in dirs
                /\ l[i].base = TheBase
                /\ is_numbered(l[i].path, TheBase)
                /\ numbered_text(l[i].path, TheBase,
                                 SubSeq(l[i].path, Len(TheBase) + 2, Len(l[i].path)))
                /\ l[i].number =
                     decimal(digits_of(SubSeq(l[i].path, Len(TheBase) + 2, Len(l[i].path))))
        /\ stage[1] = "iterated" =>
                \A name \in dirs :
                    is_numbered(name, TheBase) => \E i \in 1 .. Len(l) : l[i].path = name
        /\ pc[1] # "panicked"

\* an iterator has run to its end over a parent that holds the file oops, the
\* link b-current and three names of number 7, and has yielded those three
C21_Witness ==
    /\ stage[1] = "iterated"
    /\ <<"o", "o", "p", "s">> \in dirs
    /\ link[TheBase] # NoLink
    /\ Len(listed[1]) = 3
    /\ \A i \in 1 .. 3 : listed[1][i].number = 7

----------------------------------------------------------------------------
(* The builder's reuse of a numbered directory *)

\* the cargo-pid file of the directory holds the pid of the Cargo process
\* that p runs under, as a decimal text
holds_cargo_pid_of(p, path) ==
    /\ cargo_pid[process[p]] # NoPid
    /\ \E f \in pid_files :
            /\ f[1] = path
            /\ denotes_u16(f[2])
            /\ decimal(digits_of(f[2])) = cargo_pid[process[p]]

\* p takes a step of NumberedDirBuilder::create ahead of its fallback
scans_for_reuse(p) ==
    /\ stage[p] \in {"builder", "iterate", "reuse"}
    /\ stage'[p] # stage[p] \/ readdir'[p] # readdir[p]

\* the reuse function of p's builder has returned true for a directory
reuses(p) == stage[p] = "reuse" /\ stage'[p] = "created"

\* C22: a builder with a reuse function that returns true for an existing
\* numbered directory returns that directory: the directory exists, the
\* reuse function accepts it, and neither that step nor any step of the
\* builder before it creates or removes a numbered directory or touches
\* {base}-current; the initialiser hands out that directory.  A builder
\* leaves its scan for the fallback only when it has no reuse function or the
\* listing is used up, and the fallback is a call of NumberedDir::create with
\* the builder's base and count.
C22_ReuseReturnsExistingElseCreate ==
    [][\A p \in Procs :
          /\ scans_for_reuse(p) =>
                /\ dirs' = dirs /\ link' = link /\ subdirs' = subdirs
                /\ calls' = calls /\ removals' = removals
          /\ reuses(p) =>
                /\ builder[p].reuse_fn # "none"
                /\ result'[p].status = "ok"
                /\ result'[p].path \in dirs
                /\ is_numbered(result'[p].path, TheBase)
                /\ holds_cargo_pid_of(p, result'[p].path)
          /\ (stage[p] \in {"created", "write"} /\ stage'[p] = "none" /\ pc'[p] # "panicked") =>
                /\ testdir'[p] = result[p]
                /\ dirs' = dirs /\ link' = link
          /\ (stage[p] # "fallback" /\ stage'[p] = "fallback") =>
                \/ stage[p] = "builder" /\ builder[p].reuse_fn = "none"
                \/ stage[p] = "reuse" /\ readdir[p] = {}
          /\ (stage[p] = "fallback" /\ stage'[p] # "fallback") =>
                /\ stage'[p] = "create"
                /\ calls' = calls + 1
                /\ base'[p] = TheBase
                /\ count'[p] = builder[p].count
                /\ pc'[p] = "current_entry_count"]_vars

\* a builder has returned the directory another process allocated and
\* marked, and process p holds it as its global instance: one create call
\* has been made in all
C22_Witness ==
    \E p, q \in Procs :
        /\ process[p] # process[q]
        /\ testdir[q].status = "ok"
        /\ testdir[p] = testdir[q]
        /\ calls = 1
        /\ Cardinality(dirs) = 1

----------------------------------------------------------------------------
(* The global instance *)

\* p holds the global instance that an init_testdir! of its process has made
holds_testdir_of_macro(p) ==
    /\ testdir[p].status = "ok"
    /\ cell[process[p]].builder = MacroBuilder

\* C23: all processes that run under the same Cargo process obtain the same
\* NumberedDir from init_testdir!, in every interleaving of their start-up.
C23_SameCargoSameTestdir ==
    \A p, q \in Procs :
        (/\ cargo_pid[process[p]] # NoPid
         /\ cargo_pid[process[p]] = cargo_pid[process[q]]
         /\ holds_testdir_of_macro(p)
         /\ holds_testdir_of_macro(q)) => testdir[p].path = testdir[q].path

\* the threads of process k that have panicked
panicked(k) == {p \in Procs : process[p] = k /\ pc[p] = "panicked"}

\* C24: within one process the global NumberedDir is initialised at most
\* once: one initialiser runs for the cell of a process (and one more for
\* each that has panicked), a cell that is set never changes, every get_or_init call of a thread of the process returns
\* the value of the cell, whatever the builder of the call, and when all
\* callers are threads of one process a single create call is made and a
\* single numbered directory exists.
C24_InitialisedOncePerProcess ==
    /\ [](\A k \in Procs : cell[k].runs <= 1 + Cardinality(panicked(k)))
    /\ [](\A p \in Procs :
            testdir[p] # NoResult =>
                /\ cell[process[p]].state = "set"
                /\ testdir[p] = cell[process[p]].value
                /\ testdir[p].status = "ok")
    /\ [](\A p, q \in Procs :
            (process[p] = process[q] /\ testdir[p] # NoResult /\ testdir[q] # NoResult)
                => testdir[p] = testdir[q])
    /\ []((\A p \in Procs : process[p] = 1) => (calls <= 1 /\ Cardinality(dirs) <= 1))
    /\ [][\A k \in Procs : cell[k].state = "set" => cell'[k] = cell[k]]_vars

\* two threads of one process hold the same global instance after three
\* get_or_init calls, the last ones with builders that differ, and one
\* create call has been made
C24_Witness ==
    /\ process[1] = process[2]
    /\ testdir[1].status = "ok"
    /\ testdir[2] = testdir[1]
    /\ builder[1] # builder[2]
    /\ inits = 3
    /\ calls = 1

----------------------------------------------------------------------------
(* Errors of create, once its directory exists *)

\* p's call has created the directory of number next_count[p] and has not
\* returned yet
has_created(p) == pc[p] \in {"exists", "remove_file", "symlink_dir"}

\* p's create call returns an error in this step
returns_error(p) == in_call(p) /\ pc'[p] = "done" /\ result'[p].status = "err"

\* C31: whenever create returns an error, the call leaves no numbered
\* directory of its own behind in the parent.
C31_FailedCallLeavesNoDirectory ==
    [][\A p \in Procs :
          returns_error(p) =>
              ~(has_created(p) /\ numbered_name(base[p], next_count[p]) \in dirs')]_vars

----------------------------------------------------------------------------
(* The scan of create *)

\* the scan of p's create call ends in this step
scan_ends(p) == pc[p] = "current_entry_count" /\ pc'[p] # "current_entry_count"

\* the parent holds a directory of p's base with a number
holds_numbered(p) == \E name \in dirs : is_numbered(name, base[p])

\* C32: the scan of a create call does not go on as if no numbered entries
\* existed when the parent holds some: it reports a current number and
\* retirement follows, or, the listing having failed, the call returns an
\* error.
C32_ScanFailureIsAnError ==
    [][\A p \in Procs :
          (scan_ends(p) /\ holds_numbered(p)) =>
              \/ pc'[p] = "remove_obsolete_dirs" /\ current_count'[p] # None
              \/ pc'[p] = "done" /\ result'[p].status = "err"]_vars

\* p's call makes its symlink_dir call in this step
links(p) == pc[p] = "symlink_dir" /\ pc'[p] # "symlink_dir"

\* p's call makes its remove_file call in this step
unlinks(p) == pc[p] = "remove_file" /\ pc'[p] # "remove_file"

\* C33: when the creation of {base}-current fails because the name is taken,
\* create still returns Ok with the directory it created and leaves the
\* link as it is; the other call create makes once its directory exists,
\* the removal of the old link, returns its failure as an error.
C33_LinkFailureTolerated ==
    [][\A p \in Procs :
          /\ links(p) =>
                /\ pc'[p] = "done"
                /\ result'[p] = Ok(numbered_name(base[p], next_count[p]), next_count[p])
                /\ dirs' = dirs
                /\ link[base[p]] # NoLink => link' = link
                /\ link[base[p]] = NoLink => link'[base[p]] = result'[p].path
          /\ (unlinks(p) /\ link[base[p]] = NoLink) =>
                /\ pc'[p] = "done"
                /\ result'[p].status = "err"]_vars

\* the only caller so far holds the Ok of a create call whose directory is
\* there, while b-current is taken by another target: its symlink_dir call
\* has failed
C33_Witness ==
    \E p \in Procs :
        /\ \A q \in Procs \ {p} : pc[q] = "idle"
        /\ pc[p] = "done"
        /\ result[p].status = "ok"
        /\ result[p].path \in dirs
        /\ link[TheBase] # NoLink
        /\ link[TheBase] # result[p].path

----------------------------------------------------------------------------
(* create_subdir on a numbered directory that has been retired *)

no_dotdot(path) == \A i \in 1 .. Len(path.components) : path.components[i] # DotDot

\* p's create_subdir call makes a filesystem call in this step
carves_step(p) ==
    \/ pc[p] = "done" /\ pc'[p] = "subdir_create_dir"
    \/ pc[p] = "subdir_create_dir" /\ (suffix_i'[p] # suffix_i[p] \/ pc'[p] = "done")

\* C34: create_subdir with a relative path that has no '..' component never
\* adds an entry to the parent; called on a numbered directory that
\* retirement has removed it fails, and the retired directory does not
\* reappear.
C34_SubdirAddsNoEntryToParent ==
    [][\A p \in Procs :
          (carves_step(p) /\ no_dotdot(rel_path'[p])) =>
              /\ dirs' \subseteq dirs
              /\ (pc[p] = "done" /\ result[p].path \notin dirs) =>
                    (pc'[p] = "done" /\ subdir_result'[p].status = "err")]_vars

----------------------------------------------------------------------------
(* Varying run: one caller, from an empty parent, a retention count of its *)
(* own for every call                                                      *)

VaryCreate ==
    /\ calls < MaxVaryCalls
    /\ \E k \in Counts : create(1, TheBase, k)
    /\ UNCHANGED outer_vars

NextVary == VaryCreate \/ Steps

SpecVary == InitEmpty /\ [][NextVary]_vars

\* the step of process p that settles what its call retires
settles_retirement(p) == pc[p] = "remove_obsolete_dirs" /\ pc'[p] # "remove_obsolete_dirs"

\* the paths of the n lowest-numbered directories of base b
lowest_numbered(b, n) ==
    {e.path : e \in {x \in iterate(dirs, link, b) :
                        Cardinality({y \in iterate(dirs, link, b) : y.number < x.number}) < n}}

\* C35: in a sequential run from an empty parent whose retention count differs
\* from call to call, below the wrap, after each successful create made with
\* count c at most c numbered directories exist and they are the ones with
\* the highest numbers handed out so far; a call retires exactly the surplus
\* over c - 1, which is nothing when the count grew and all of it when the
\* count shrank.
C35_CountMayVary ==
    /\ [](returned(1) =>
             LET N == numbers_of(TheBase)
             IN  /\ Cardinality(N) <= count[1]
                 /\ Cardinality(dirs) <= count[1]
                 /\ result[1].number = calls - 1
                 /\ N = (calls - Cardinality(N)) .. (calls - 1))
    /\ [][settles_retirement(1) =>
             LET have == Cardinality(numbers_of(TheBase))
                 surplus == IF have > count[1] - 1 THEN have - (count[1] - 1) ELSE 0
             IN  /\ pc'[1] # "panicked"
                 /\ obsolete'[1] = lowest_numbered(TheBase, surplus)]_vars

C35_Witness ==
    /\ returned(1)
    /\ count[1] = 1
    /\ calls = MaxCount + 1
    /\ removals = MaxCount
    /\ dirs = {numbered_name(TheBase, MaxCount)}

----------------------------------------------------------------------------
(* Two series in one parent: MaxProcs callers, each call on one of the two *)
(* bases                                                                   *)

BasesCreate ==
    \E p \in Procs, b \in Bases :
        calls < MaxBasesCalls /\ create(p, b, retention) /\ UNCHANGED outer_vars

NextBases == BasesCreate \/ Steps

SpecBases == InitEmpty /\ [][NextBases]_vars

\* process p makes a step of a create call
acts(p) ==
    /\ pc[p] \in {"idle", "done"} \/ in_call(p)
    /\ <<pc[p], calls, obsolete[p], attempt[p], next_count[p]>> #
           <<pc'[p], calls', obsolete'[p], attempt'[p], next_count'[p]>>
    /\ \A q \in Procs \ {p} : pc'[q] = pc[q]

\* the names format!("{}-{}", b, n) of a run on two bases
series_names(b) == {numbered_name(b, n) : n \in 0 .. (MaxBasesCalls + MAX_TRIES)}

series_numbers(b) == {n \in 0 .. (MaxBasesCalls + MAX_TRIES) : numbered_name(b, n) \in dirs}

\* C36: in any interleaving of create calls on two bases of one parent, a
\* step of a call for base A leaves the numbered directories of every other
\* base B and the link B-current as they are, and what the call counts and
\* retires are entries of A alone.
C36_BasesDoNotInterfere ==
    [][\A p \in Procs : acts(p) =>
          LET A == base'[p]
          IN  /\ \A B \in Bases \ {A} :
                    /\ link'[B] = link[B]
                    /\ dirs' \cap series_names(B) = dirs \cap series_names(B)
                    /\ iterate(dirs', link', B) = iterate(dirs, link, B)
              /\ (dirs' \ dirs) \cup (dirs \ dirs') \subseteq series_names(A)
              /\ obsolete'[p] \subseteq series_names(A)
              /\ pc[p] = "current_entry_count" =>
                    current_count'[p] =
                        IF series_numbers(A) = {} THEN None ELSE Max(series_numbers(A))]_vars

C36_Witness ==
    \E p \in Procs :
        /\ returned(p)
        /\ base[p] = TheBase
        /\ retired[p] # {}
        /\ numbered_name(TheBase, 1) \in dirs
        /\ numbered_name(OtherBase, 0) \in dirs
        /\ link[OtherBase] = numbered_name(OtherBase, 0)

----------------------------------------------------------------------------
(* The retention bound past the wrap *)

\* the numbers handed out after the numbering has wrapped, in a wrap run
wrapped_numbers == {n \in numbers_of(TheBase) : n < HALF}

\* C37: in a sequential run with a fixed retention count k, after each
\* allocation made past the wrap at most k numbered directories exist, and
\* the directories numbered just below 65536 that were created before the
\* wrap are gone once k wrapped directories exist.
C37_RetentionHoldsPastWrap ==
    (returned(1) /\ calls > U16_RANGE) =>
        /\ Cardinality(numbers_of(TheBase)) <= retention
        /\ Cardinality(wrapped_numbers) >= retention =>
               numbers_of(TheBase) = wrapped_numbers

----------------------------------------------------------------------------
(* Termination.  The run with retirement and subdirectories, with           *)
(* fs::create_dir calls of create that fail while no create_subdir call is  *)
(* under way, and with every filesystem call returning.                     *)

LiveFaults ==
    \E p \in Procs :
        /\ \A q \in Procs : pc[q] # "subdir_create_dir"
        /\ create_dir_fails(p)

NextLive == RetireCreate \/ Steps \/ LiveFaults \/ RetireSubCreate \/ SubSteps

\* one filesystem call of the create or create_subdir call of process p
CallStep(p) ==
    \/ scan_current(p)
    \/ remove_obsolete_dirs(p)
    \/ remove_dir_all(p)
    \/ create_dir(p)
    \/ exists(p)
    \/ remove_file(p)
    \/ symlink_dir(p)
    \/ subdir_create_dir(p)

\* every filesystem call returns and every caller is scheduled again
Returning == \A p \in Procs : WF_vars(CallStep(p))

SpecLive == InitSub /\ [][NextLive]_vars /\ Returning

under_way(p) == pc[p] \notin {"idle", "done"}

\* C38: every create and every create_subdir call ends, in any interleaving
\* with other callers and with every filesystem call returning: create after
\* at most 16 attempts to create its directory, create_subdir after at most
\* 65535; no call waits for another one.
C38_EveryCallTerminates ==
    /\ \A p \in Procs : under_way(p) ~> (pc[p] = "done")
    /\ [](\A p \in Procs :
             /\ attempt[p] <= MAX_TRIES
             /\ in_call(p) => attempt[p] < MAX_TRIES
             /\ suffix_i[p] <= U16_MAX
             /\ pc[p] = "subdir_create_dir" => suffix_i[p] < U16_MAX
             /\ under_way(p) => ENABLED CallStep(p))

C38_Witness ==
    /\ pc[1] = "done"
    /\ subdir_result[1] = SubdirErr("subdir conflict: all filename alternatives exhausted")
    /\ suffix_i[1] = U16_MAX
    /\ pc[2] = "done"
    /\ result[2].err = "Failed to create numbered dir"
    /\ attempt[2] = MAX_TRIES

====
